---- MODULE Spec2Model ----
(***************************************************************************)
(* A model of the ICT backtesting pipeline: the function registry          *)
(* (database.py), the tools of the backtesting sub-agent                   *)
(* (backtesting_agent.py) and of the coordinator agent                     *)
(* (coordinator_agent.py).                                                 *)
(*                                                                         *)
(* Every tool is one action: the agent runtime hands it its arguments and  *)
(* gets back either a value or a raised exception.  A result is a record   *)
(* with kind "value" or "raised".                                          *)
(*                                                                         *)
(* Names.  backtesting_agent.py takes its model classes from models.py     *)
(* with the statement at lines 14-20.  That statement names                *)
(* ValidationResult, which models.py spells ValidationResults (line 58),   *)
(* and validate_results is annotated and written with ValidationResults:   *)
(* the tools only exist in a module where that name is the class of        *)
(* models.py:58, and the model takes it so.  BacktestingMetadata is named  *)
(* by no import of backtesting_agent.py or coordinator_agent.py, so        *)
(* evaluating it raises NameError (see BacktestingAgentNames).             *)
(*                                                                         *)
(* Numbers.  The float fields are kept in hundredths of a percent (Pct).   *)
(* For the thresholds of validate_results every value the code computes is *)
(* a whole number of hundredths; the doubles equal these values except     *)
(* data_coverage for 11 rows under high_confidence, which is               *)
(* 55.00000000000001, away from every threshold the code compares with.    *)
(***************************************************************************)
EXTENDS Integers, Sequences, FiniteSets, TLC

VARIABLES registry, pc, call, ret, trace, manager

vars == <<registry, pc, call, ret, trace, manager>>

\* ------------------------------------------------------------ helpers

None == "None"

Min(a, b) == IF a <= b THEN a ELSE b

\* a percentage as hundredths of a percent
Pct(p) == p * 100

SeqToSet(s) == {s[i] : i \in 1..Len(s)}

Take(s, k) == SubSeq(s, 1, Min(k, Len(s)))

\* ------------------------------------------------------------ bounds

\* the database returns at most this many rows
MaxRows == 25

\* a modelled query has at most this many words
MaxWords == 3

\* health checks begun in one run of the manager
MaxChecks == 3

\* a modelled sequence of user queries has at most this many queries
MaxQueries == 3

\* ------------------------------------------------------------ enumerations

AnalysisStrategy == {"performance_analysis", "correlation_study", "structure_detection"}
TradingContext == {"scalping", "swing_trading", "position_analysis"}
QualityTier == {"high_confidence", "balanced", "broad_coverage"}

\* ------------------------------------------------------------ models.py

\* Field(..., ge=0, le=100)
InPctRange(x) == 0 <= x /\ x <= Pct(100)

\* ValidationResults(...): pydantic checks the three bounded fields
ValidationResultsOk(r) ==
    /\ InPctRange(r.confidence_level)
    /\ InPctRange(r.data_coverage)
    /\ InPctRange(r.quality_score)

\* ------------------------------------------------------------ validate_results

TierThresholds ==
    [high_confidence |-> [min_sample |-> 20, min_coverage |-> 80, min_confidence |-> 90],
     balanced        |-> [min_sample |-> 10, min_coverage |-> 70, min_confidence |-> 75],
     broad_coverage  |-> [min_sample |-> 5,  min_coverage |-> 50, min_confidence |-> 60]]

\* thresholds.get(quality_requirements, thresholds["balanced"])
Threshold(q) == IF q \in DOMAIN TierThresholds THEN TierThresholds[q] ELSE TierThresholds["balanced"]

\* the coverage left uncapped
DataCoverage_uncapped(n, th) == (n * Pct(100)) \div th.min_sample

\* min(100.0, (sample_size / min_sample) * 100)
DataCoverage(n, th) == Min(Pct(100), (n * Pct(100)) \div th.min_sample)

\* min(100.0, data_coverage * (min_confidence / 100))
ConfidenceLevel(cov, th) == Min(Pct(100), (cov * th.min_confidence) \div 100)

\* (confidence_level + data_coverage) / 2
QualityScore(conf, cov) == (conf + cov) \div 2

\* the comparison made strict
IsValid_strict(n, th) == n > th.min_sample

\* sample_size >= threshold["min_sample"]
IsValid(n, th) == n >= th.min_sample

\* the coverage compared with the confidence target
ValidationWarnings_confidence(n, cov, th) ==
    (IF n < th.min_sample
        THEN <<[kind |-> "sample_size", value |-> n, limit |-> th.min_sample]>>
        ELSE <<>>)
    \o
    (IF cov < Pct(th.min_confidence)
        THEN <<[kind |-> "data_coverage", value |-> cov, limit |-> th.min_coverage]>>
        ELSE <<>>)

\* the two warnings of validate_results, in the order the code appends them
ValidationWarnings(n, cov, th) ==
    (IF n < th.min_sample
        THEN <<[kind |-> "sample_size", value |-> n, limit |-> th.min_sample]>>
        ELSE <<>>)
    \o
    (IF cov < Pct(th.min_coverage)
        THEN <<[kind |-> "data_coverage", value |-> cov, limit |-> th.min_coverage]>>
        ELSE <<>>)

\* the except branch of validate_results
ValidationFallback ==
    [is_valid |-> FALSE, confidence_level |-> 0, sample_size |-> 0, data_coverage |-> 0,
     warnings |-> <<[kind |-> "validation_error", value |-> 0, limit |-> 0]>>,
     quality_score |-> 0]

\* raw is [isList, len]: len(raw_results) raises TypeError when raw_results is no list
validate_results(raw, q) ==
    IF ~raw.isList THEN ValidationFallback
    ELSE
        LET n == raw.len
            th == Threshold(q)
            cov == DataCoverage(n, th)
            conf == ConfidenceLevel(cov, th)
            r == [is_valid |-> IsValid(n, th), confidence_level |-> conf, sample_size |-> n,
                  data_coverage |-> cov, warnings |-> ValidationWarnings(n, cov, th),
                  quality_score |-> QualityScore(conf, cov)]
        IN IF ValidationResultsOk(r) THEN r ELSE ValidationFallback

\* ------------------------------------------------------------ results

Value(v) == [kind |-> "value", value |-> v, error |-> None]
Raised(e) == [kind |-> "raised", value |-> None, error |-> e]

Exc(type, text) == [type |-> type, text |-> text]

\* a handler that catches ValueError only
CaughtByExceptException_ValueError(e) == e.type = "ValueError"

\* asyncio.CancelledError derives from BaseException: "except Exception" lets it pass
CaughtByExceptException(e) == e.type # "CancelledError"

\* ------------------------------------------------------------ module namespaces

\* what "from models import (...)" binds in backtesting_agent.py
BacktestingAgentNames ==
    {"CoordinatorRequest", "BacktestingResponse", "FunctionSelection", "ValidationResults",
     "SQLFunction"}

\* what "from models import (...)" binds in coordinator_agent.py
CoordinatorAgentNames == {"QueryClassification", "CoordinatorRequest", "BacktestingResponse"}

NameError(name) == Exc("NameError", name)

\* ------------------------------------------------------------ FunctionRegistry

EmptyRegistry == [functions |-> <<>>, categories |-> <<>>]

FunctionNames(reg) == [i \in 1..Len(reg.functions) |-> reg.functions[i].name]

\* a lookup that finds every name
HasFunction_always(reg, name) == TRUE

HasFunction(reg, name) == \E i \in 1..Len(reg.functions) : reg.functions[i].name = name

\* self.functions[name] = func_data, then the category index
AddFunction(reg, f) ==
    LET fs == IF HasFunction(reg, f.name)
                 THEN [i \in 1..Len(reg.functions) |->
                          IF reg.functions[i].name = f.name THEN f ELSE reg.functions[i]]
                 ELSE Append(reg.functions, f)
        old == IF f.category \in DOMAIN reg.categories THEN reg.categories[f.category] ELSE <<>>
    IN [functions |-> fs,
        categories |-> [c \in DOMAIN reg.categories \cup {f.category} |->
                           IF c = f.category THEN Append(old, f.name) ELSE reg.categories[c]]]

RECURSIVE AddAll(_, _)
AddAll(reg, fs) == IF fs = <<>> THEN reg ELSE AddAll(AddFunction(reg, Head(fs)), Tail(fs))

DemoFunctions ==
    <<[name |-> "update_order_block_performance", category |-> "order_blocks"],
      [name |-> "detect_fair_value_gaps", category |-> "fair_value_gaps"],
      [name |-> "analyze_session_performance", category |-> "session_analysis"]>>

create_demo_functions(reg) == AddAll(reg, DemoFunctions)

\* the loop over signatures.get('functions', []): func_data['name'] raises KeyError
\* for an entry without a name, func_data.get('category', 'general') for one
\* without a category
RECURSIVE LoadEntries(_, _)
LoadEntries(reg, es) ==
    IF es = <<>> THEN [reg |-> reg, ok |-> TRUE]
    ELSE IF Head(es).name = None THEN [reg |-> reg, ok |-> FALSE]
    ELSE LoadEntries(
            AddFunction(reg, [name |-> Head(es).name,
                              category |-> IF Head(es).category = None THEN "general"
                                           ELSE Head(es).category]),
            Tail(es))

\* the demo set only when the file is absent
load_functions_absent_only(reg, file) ==
    IF file.kind = "absent" THEN create_demo_functions(reg)
    ELSE IF file.kind = "malformed" THEN reg
    ELSE LoadEntries(reg, file.functions).reg

load_functions(reg, file) ==
    IF file.kind = "absent" THEN create_demo_functions(reg)
    ELSE IF file.kind = "malformed" THEN create_demo_functions(reg)
    ELSE LET r == LoadEntries(reg, file.functions)
         IN IF r.ok THEN r.reg ELSE create_demo_functions(r.reg)

get_functions_by_category(reg, category) ==
    IF category \in DOMAIN reg.categories THEN reg.categories[category] ELSE <<>>

StrategyMapping(strategy) ==
    CASE strategy = "performance_analysis" -> <<"order_blocks", "session_analysis">>
      [] strategy = "correlation_study" -> <<"correlation", "structure_analysis">>
      [] strategy = "structure_detection" -> <<"market_structure", "pattern_detection">>
      [] OTHER -> <<>>

RECURSIVE CollectCategories(_, _)
CollectCategories(reg, cats) ==
    IF cats = <<>> THEN <<>>
    ELSE get_functions_by_category(reg, Head(cats)) \o CollectCategories(reg, Tail(cats))

\* self.functions.get(name): the stored definition, or None
get_function(reg, name) ==
    IF HasFunction(reg, name)
    THEN reg.functions[CHOOSE i \in 1..Len(reg.functions) : reg.functions[i].name = name]
    ELSE None

\* list.extend(items) on a list that is either the caller's own ("local") or the
\* list the registry stores under a category
ExtendList(reg, target, items) ==
    IF target = "local" THEN reg
    ELSE [reg EXCEPT !.categories[target] = @ \o items]

RECURSIVE ExtendAll(_, _, _)
ExtendAll(reg, target, cats) ==
    IF cats = <<>> THEN reg
    ELSE ExtendAll(ExtendList(reg, target, get_functions_by_category(reg, Head(cats))),
                   target, Tail(cats))

\* suggestions collected into the stored list of the first category that has one
SuggestedList_stored(reg, strategy) ==
    LET cats == StrategyMapping(strategy)
    IN IF cats # <<>> /\ Head(cats) \in DOMAIN reg.categories THEN Head(cats) ELSE "local"

\* "suggested = []": the list suggest_functions collects into is its own
SuggestedList(reg, strategy) == "local"

\* the registry when suggest_functions has returned
RegistryAfterSuggest(reg, strategy) ==
    ExtendAll(reg, SuggestedList(reg, strategy), StrategyMapping(strategy))

\* the registry when select_optimal_function has returned: the lists it slices and
\* the dict it fills are its own
RegistryAfterSelect(reg, registryOk, strategy) ==
    IF registryOk THEN RegistryAfterSuggest(reg, strategy) ELSE reg

\* the registry when process_coordinator_request has returned: the parameters it
\* overrides are a copy of the selection's, the gateway only looks names up
RegistryAfterRequest(reg, input, suggestThrows) ==
    IF input.parse # "ok" THEN reg
    ELSE RegistryAfterSelect(reg, ~suggestThrows, input.request.analysis_strategy)

\* the suggestions without the limit of 10
suggest_functions_untruncated(reg, strategy, context) ==
    LET suggested == CollectCategories(reg, StrategyMapping(strategy))
    IN IF suggested = <<>> THEN FunctionNames(reg) ELSE suggested

suggest_functions(reg, strategy, context) ==
    LET suggested == CollectCategories(reg, StrategyMapping(strategy))
    IN Take(IF suggested = <<>> THEN FunctionNames(reg) ELSE suggested, 10)

\* ------------------------------------------------------------ select_optimal_function

DefaultFunction == "update_order_block_performance"

Preferred(strategy) ==
    CASE strategy = "performance_analysis" ->
            <<"update_order_block_performance", "analyze_session_performance">>
      [] strategy = "correlation_study" ->
            <<"detect_fair_value_gaps", "analyze_session_performance">>
      [] OTHER -> <<"detect_fair_value_gaps", "update_order_block_performance">>

\* the preferred list searched from its end
RECURSIVE FirstMatch_reversed(_, _)
FirstMatch_reversed(preferred, suggested) ==
    IF preferred = <<>> THEN None
    ELSE IF preferred[Len(preferred)] \in SeqToSet(suggested) THEN preferred[Len(preferred)]
    ELSE FirstMatch_reversed(SubSeq(preferred, 1, Len(preferred) - 1), suggested)

RECURSIVE FirstMatch(_, _)
FirstMatch(preferred, suggested) ==
    IF preferred = <<>> THEN None
    ELSE IF Head(preferred) \in SeqToSet(suggested) THEN Head(preferred)
    ELSE FirstMatch(Tail(preferred), suggested)

ContextTimeframe(context) ==
    CASE context = "scalping" -> "15m"
      [] context = "swing_trading" -> "4h"
      [] OTHER -> "1d"

QualityMinSample(quality) ==
    CASE quality = "high_confidence" -> 20
      [] quality = "balanced" -> 10
      [] OTHER -> 5

Params(timeframe, minSample) == [timeframe |-> timeframe, min_sample_size |-> minSample]

\* FunctionSelection(...): recommended_function is a str, confidence is Field(..., ge=0, le=100)
MakeSelection(names, sel) ==
    IF "FunctionSelection" \notin names THEN Raised(NameError("FunctionSelection"))
    ELSE IF sel.recommended_function = None \/ ~InPctRange(sel.confidence)
    THEN Raised(Exc("ValidationError", "FunctionSelection"))
    ELSE Value(sel)

\* the exception of a lookup on dependencies that hold no registry
RegistryError == [type |-> "AttributeError", text |-> "'NoneType' object has no attribute 'suggest_functions'"]

\* f"{prefix}: {detail}"
ErrorText(prefix, detail) == [prefix |-> prefix, detail |-> detail]

\* a fallback that keeps the confidence of a regular selection
FallbackSelection_confident ==
    [recommended_function |-> DefaultFunction, parameters |-> Params("4h", 10),
     confidence |-> Pct(85), alternative_functions |-> <<>>, degraded |-> TRUE,
     reasoning |-> ErrorText("Fallback selection due to error", RegistryError.text)]

FallbackSelection ==
    [recommended_function |-> DefaultFunction, parameters |-> Params("4h", 10),
     confidence |-> Pct(50), alternative_functions |-> <<>>, degraded |-> TRUE,
     reasoning |-> ErrorText("Fallback selection due to error", RegistryError.text)]

\* return FunctionSelection(...) inside the try: a failing constructor is caught too
ReturnSelection(names, sel) ==
    LET built == MakeSelection(names, sel)
    IN IF built.kind = "value" THEN built
       ELSE IF CaughtByExceptException(built.error) THEN MakeSelection(names, FallbackSelection)
       ELSE built

\* a selection that takes the first preferred name without looking at the suggestions
select_optimal_function_unchecked(reg, registryOk, strategy, context, quality) ==
    IF ~registryOk THEN FallbackSelection
    ELSE
        LET s0 == suggest_functions(reg, strategy, context)
            suggested == IF s0 = <<>> THEN FunctionNames(reg) ELSE s0
            recommended == Head(Preferred(strategy))
        IN [recommended_function |-> recommended,
            parameters |-> Params(ContextTimeframe(context), QualityMinSample(quality)),
            confidence |-> Pct(85), alternative_functions |-> Take(suggested, 3),
            degraded |-> FALSE,
            reasoning |-> <<"Selected", recommended, "for", strategy, "with", context, "context">>]

\* registryOk is FALSE when ctx.deps.function_registry is no working registry and
\* the lookup throws: the except branch answers
select_optimal_function(reg, registryOk, strategy, context, quality) ==
    IF ~registryOk THEN FallbackSelection
    ELSE
        LET s0 == suggest_functions(reg, strategy, context)
            suggested == IF s0 = <<>> THEN FunctionNames(reg) ELSE s0
            match == FirstMatch(Preferred(strategy), suggested)
            recommended == IF match # None THEN match
                           ELSE IF suggested # <<>> THEN suggested[1]
                           ELSE DefaultFunction
        IN [recommended_function |-> recommended,
            parameters |-> Params(ContextTimeframe(context), QualityMinSample(quality)),
            confidence |-> Pct(85), alternative_functions |-> Take(suggested, 3),
            degraded |-> FALSE,
            reasoning |-> <<"Selected", recommended, "for", strategy, "with", context, "context">>]

\* ------------------------------------------------------------ DatabaseManager

NoExc == Exc(None, None)

\* what the data store does with one call: rows after ms milliseconds, or an exception
DbExceptions ==
    {Exc("TimeoutError", ""),
     Exc("CancelledError", ""),
     Exc("PostgresError", "relation ohlcv_data does not exist"),
     Exc("PostgresError", "function does not exist"),
     Exc("RuntimeError", "Database pool not initialized")}

ElapsedMs == {245}

DbOutcomes ==
    [kind : {"rows"}, n : 0..MaxRows, ms : ElapsedMs, exc : {NoExc}]
    \cup [kind : {"raise"}, n : {0}, ms : {0}, exc : DbExceptions]

\* DatabaseManager.execute_function: the rows, or the exception raised again
execute_function(outcome) ==
    IF outcome.kind = "rows" THEN Value([isList |-> TRUE, len |-> outcome.n])
    ELSE Raised(outcome.exc)

\* ------------------------------------------------------------ execute_sql_function

\* the dict of a failed call has no "data" key
NoData == [isList |-> FALSE, len |-> 0]

\* the dict of a successful call has no "error" key
NoError == ErrorText(None, None)

DbCall(name, parameters) == [function_name |-> name, parameters |-> parameters]

\* a gateway that calls the database a second time after a timeout
execute_sql_function_retrying(reg, function_name, parameters, outcome) ==
    IF ~HasFunction(reg, function_name)
    THEN [ret |-> Value([success |-> FALSE, data |-> NoData, row_count |-> 0,
                         execution_time_ms |-> 0, function_used |-> None,
                         error |-> ErrorText("Function not found", function_name),
                         alternatives |-> Take(FunctionNames(reg), 5)]),
          db |-> <<>>]
    ELSE
        LET result == execute_function(outcome)
            calls == IF result.kind = "raised" /\ result.error.type = "TimeoutError"
                     THEN <<DbCall(function_name, parameters), DbCall(function_name, parameters)>>
                     ELSE <<DbCall(function_name, parameters)>>
        IN IF result.kind = "value"
           THEN [ret |-> Value([success |-> TRUE, data |-> result.value,
                                row_count |-> result.value.len,
                                execution_time_ms |-> outcome.ms,
                                function_used |-> function_name,
                                error |-> NoError, alternatives |-> <<>>]),
                 db |-> calls]
           ELSE IF CaughtByExceptException(result.error)
           THEN [ret |-> Value([success |-> FALSE, data |-> NoData, row_count |-> 0,
                                execution_time_ms |-> 0, function_used |-> None,
                                error |-> ErrorText("Database error", result.error.text),
                                alternatives |-> <<>>]),
                 db |-> calls]
           ELSE [ret |-> Raised(result.error), db |-> calls]

\* the dict execute_sql_function returns, and the calls it made to db_manager
execute_sql_function(reg, function_name, parameters, outcome) ==
    IF ~HasFunction(reg, function_name)
    THEN [ret |-> Value([success |-> FALSE, data |-> NoData, row_count |-> 0,
                         execution_time_ms |-> 0, function_used |-> None,
                         error |-> ErrorText("Function not found", function_name),
                         alternatives |-> Take(FunctionNames(reg), 5)]),
          db |-> <<>>]
    ELSE
        LET result == execute_function(outcome)
            calls == <<DbCall(function_name, parameters)>>
        IN IF result.kind = "value"
           THEN [ret |-> Value([success |-> TRUE, data |-> result.value,
                                row_count |-> result.value.len,
                                execution_time_ms |-> outcome.ms,
                                function_used |-> function_name,
                                error |-> NoError, alternatives |-> <<>>]),
                 db |-> calls]
           ELSE IF CaughtByExceptException(result.error)
           THEN [ret |-> Value([success |-> FALSE, data |-> NoData, row_count |-> 0,
                                execution_time_ms |-> 0, function_used |-> None,
                                error |-> ErrorText("Database error", result.error.text),
                                alternatives |-> <<>>]),
                 db |-> calls]
           ELSE [ret |-> Raised(result.error), db |-> calls]

\* ------------------------------------------------------------ BacktestingResponse

NoResults == [empty |-> TRUE]

Metadata(n, cov, conf, ms, fn, score) ==
    [sample_size |-> n, data_coverage |-> cov, confidence_level |-> conf,
     execution_time_ms |-> ms, sql_function_used |-> fn, data_quality_score |-> score]

ZeroMetadata(fn) == Metadata(0, 0, 0, 0, fn, 0)

MetadataOk(m) ==
    InPctRange(m.data_coverage) /\ InPctRange(m.confidence_level) /\ InPctRange(m.data_quality_score)

\* BacktestingResponse(..., metadata=BacktestingMetadata(...), ...) evaluated in a
\* module that binds names: the callee first, then the argument, then the call
MakeResponse(names, status, results, metadata, recommendations, warnings, error_details) ==
    IF "BacktestingResponse" \notin names THEN Raised(NameError("BacktestingResponse"))
    ELSE IF "BacktestingMetadata" \notin names THEN Raised(NameError("BacktestingMetadata"))
    ELSE IF ~MetadataOk(metadata) THEN Raised(Exc("ValidationError", "metadata"))
    ELSE Value([execution_status |-> status, analysis_results |-> results,
                metadata |-> metadata, recommendations |-> recommendations,
                warnings |-> warnings, error_details |-> error_details])

\* ------------------------------------------------------------ process_coordinator_request

Falsy(x) == x = None \/ x = ""

\* str.lower() on the symbols a request can carry
LowerSymbol(symbol) ==
    CASE symbol = "EURUSD" -> "eurusd"
      [] symbol = "XauUsd" -> "xauusd"
      [] OTHER -> symbol

\* function_selection.parameters.copy() and the three overrides
PrepareParameters(selected, request) ==
    LET p1 == IF Falsy(request.symbol) THEN selected
              ELSE ("symbol" :> LowerSymbol(request.symbol)) @@ selected
        p2 == IF Falsy(request.timeframe) THEN p1
              ELSE ("timeframe" :> request.timeframe) @@ p1
    IN IF Falsy(request.session) THEN p2 ELSE ("session" :> request.session) @@ p2

Recommendations(validation) ==
    <<IF validation.confidence_level > Pct(90) THEN "high_confidence"
      ELSE IF validation.confidence_level > Pct(75) THEN "good_confidence"
      ELSE "low_confidence">>
    \o (IF validation.sample_size < 20 THEN <<"extend_time_range">> ELSE <<>>)

ExecutionStatus(validation) ==
    IF validation.is_valid /\ validation.confidence_level > Pct(75) THEN "success"
    ELSE IF validation.sample_size > 0 THEN "partial"
    ELSE "failed"

\* what the request handler has computed so far: the function selected, what the
\* gateway answered, and the status and recommendations derived from the validation
Locals(selected, gateway, gateway_error, status, recommendations) ==
    [selected |-> selected, gateway |-> gateway, gateway_error |-> gateway_error,
     status |-> status, recommendations |-> recommendations]

NoLocals == Locals(None, None, None, None, <<>>)

Outcome(r, db, validated, locals) ==
    [ret |-> r, db |-> db, validated |-> validated, locals |-> locals]

\* the except branch of process_coordinator_request
ProcessingFailed(names, e) ==
    IF CaughtByExceptException(e)
    THEN MakeResponse(names, "failed", NoResults, ZeroMetadata("none"), <<>>, <<>>,
                      ErrorText("Processing error", e.text))
    ELSE Raised(e)

\* the try block: the result it returns or the exception it raises, with what it did
ProcessTry(names, reg, input, suggestThrows, outcome) ==
    IF input.parse = "bad_json" THEN Outcome(Raised(Exc("JSONDecodeError", "Expecting value")), <<>>, FALSE, NoLocals)
    ELSE IF input.parse = "bad_schema" THEN Outcome(Raised(Exc("ValidationError", "CoordinatorRequest")), <<>>, FALSE, NoLocals)
    ELSE
        LET request == input.request
            selection == select_optimal_function(reg, ~suggestThrows, request.analysis_strategy,
                             request.trading_context, request.quality_requirements)
            parameters == PrepareParameters(selection.parameters, request)
            exec == execute_sql_function(reg, selection.recommended_function, parameters, outcome)
        IN IF exec.ret.kind = "raised"
           THEN Outcome(exec.ret, exec.db, FALSE,
                        Locals(selection.recommended_function, "raised", None, None, <<>>))
           ELSE IF ~exec.ret.value.success
           THEN Outcome(MakeResponse(names, "failed", NoResults,
                            ZeroMetadata(selection.recommended_function), <<>>, <<>>,
                            exec.ret.value.error),
                        exec.db, FALSE,
                        Locals(selection.recommended_function, "failure", exec.ret.value.error,
                               None, <<>>))
           ELSE
               LET validation == validate_results(exec.ret.value.data, request.quality_requirements)
                   recommendations == Recommendations(validation)
                   status == ExecutionStatus(validation)
               IN Outcome(
                     MakeResponse(names, status,
                         [empty |-> FALSE, function_output |-> exec.ret.value.data,
                          total_records |-> validation.sample_size,
                          analysis_type |-> request.analysis_strategy,
                          parameters_used |-> parameters],
                         Metadata(validation.sample_size, validation.data_coverage,
                                  validation.confidence_level, exec.ret.value.execution_time_ms,
                                  selection.recommended_function, validation.quality_score),
                         recommendations, validation.warnings, None),
                     exec.db, TRUE,
                     Locals(selection.recommended_function, "success", None, status,
                            recommendations))

process_coordinator_request(names, reg, input, suggestThrows, outcome) ==
    LET t == ProcessTry(names, reg, input, suggestThrows, outcome)
    IN IF t.ret.kind = "value" THEN t
       ELSE Outcome(ProcessingFailed(names, t.ret.error), t.db, t.validated, t.locals)

\* ------------------------------------------------------------ text

\* a text is a sequence of characters
Space == <<" ">>

\* str.lower(), character by character
LowerChar(c) ==
    CASE c = "A" -> "a"
      [] c = "B" -> "b"
      [] c = "C" -> "c"
      [] c = "D" -> "d"
      [] c = "E" -> "e"
      [] c = "F" -> "f"
      [] c = "G" -> "g"
      [] c = "H" -> "h"
      [] c = "I" -> "i"
      [] c = "J" -> "j"
      [] c = "K" -> "k"
      [] c = "L" -> "l"
      [] c = "M" -> "m"
      [] c = "N" -> "n"
      [] c = "O" -> "o"
      [] c = "P" -> "p"
      [] c = "Q" -> "q"
      [] c = "R" -> "r"
      [] c = "S" -> "s"
      [] c = "T" -> "t"
      [] c = "U" -> "u"
      [] c = "V" -> "v"
      [] c = "W" -> "w"
      [] c = "X" -> "x"
      [] c = "Y" -> "y"
      [] c = "Z" -> "z"
      [] OTHER -> c

LowerText(text) == [i \in 1..Len(text) |-> LowerChar(text[i])]

\* Python's "keyword in text" on strings
Contains(text, keyword) ==
    \E i \in 0..(Len(text) - Len(keyword)) : SubSeq(text, i + 1, i + Len(keyword)) = keyword

RECURSIVE Join(_)
Join(words) ==
    IF words = <<>> THEN <<>>
    ELSE IF Len(words) = 1 THEN words[1]
    ELSE words[1] \o Space \o Join(Tail(words))

\* ------------------------------------------------------------ classify_user_query

\* the list without "results"
backtesting_keywords_without_results ==
    <<<<"p", "e", "r", "f", "o", "r", "m", "a", "n", "c", "e">>,
      <<"b", "a", "c", "k", "t", "e", "s", "t">>,
      <<"s", "t", "a", "t", "i", "s", "t", "i", "c", "s">>,
      <<"d", "a", "t", "a">>,
      <<"a", "n", "a", "l", "y", "s", "i", "s">>,
      <<"s", "u", "c", "c", "e", "s", "s", " ", "r", "a", "t", "e">>,
      <<"w", "i", "n", " ", "r", "a", "t", "e">>,
      <<"p", "r", "o", "f", "i", "t">>,
      <<"l", "o", "s", "s">>,
      <<"o", "r", "d", "e", "r", " ", "b", "l", "o", "c", "k">>,
      <<"f", "a", "i", "r", " ", "v", "a", "l", "u", "e", " ", "g", "a", "p">>,
      <<"l", "i", "q", "u", "i", "d", "i", "t", "y", " ", "s", "w", "e", "e", "p">>,
      <<"s", "e", "s", "s", "i", "o", "n">>>>

backtesting_keywords ==
    <<<<"p", "e", "r", "f", "o", "r", "m", "a", "n", "c", "e">>,
      <<"b", "a", "c", "k", "t", "e", "s", "t">>,
      <<"s", "t", "a", "t", "i", "s", "t", "i", "c", "s">>,
      <<"r", "e", "s", "u", "l", "t", "s">>,
      <<"d", "a", "t", "a">>,
      <<"a", "n", "a", "l", "y", "s", "i", "s">>,
      <<"s", "u", "c", "c", "e", "s", "s", " ", "r", "a", "t", "e">>,
      <<"w", "i", "n", " ", "r", "a", "t", "e">>,
      <<"p", "r", "o", "f", "i", "t">>,
      <<"l", "o", "s", "s">>,
      <<"o", "r", "d", "e", "r", " ", "b", "l", "o", "c", "k">>,
      <<"f", "a", "i", "r", " ", "v", "a", "l", "u", "e", " ", "g", "a", "p">>,
      <<"l", "i", "q", "u", "i", "d", "i", "t", "y", " ", "s", "w", "e", "e", "p">>,
      <<"s", "e", "s", "s", "i", "o", "n">>>>

rag_keywords ==
    <<<<"e", "x", "p", "l", "a", "i", "n">>,
      <<"w", "h", "a", "t", " ", "i", "s">>,
      <<"h", "o", "w", " ", "d", "o", "e", "s">>,
      <<"m", "e", "t", "h", "o", "d", "o", "l", "o", "g", "y">>,
      <<"c", "o", "n", "c", "e", "p", "t">>,
      <<"d", "e", "f", "i", "n", "i", "t", "i", "o", "n">>,
      <<"t", "h", "e", "o", "r", "y">>,
      <<"p", "r", "i", "n", "c", "i", "p", "l", "e">>,
      <<"s", "t", "r", "a", "t", "e", "g", "y">>,
      <<"a", "p", "p", "r", "o", "a", "c", "h">>>>

\* every place where a keyword occurs counted
Score_occurrences(keywords, text) ==
    Cardinality({<<k, i>> \in (1..Len(keywords)) \X (0..Len(text)) :
                    /\ i + Len(keywords[k]) <= Len(text)
                    /\ SubSeq(text, i + 1, i + Len(keywords[k])) = keywords[k]})

\* sum(1 for keyword in keywords if keyword in query_lower)
RECURSIVE Score(_, _)
Score(keywords, text) ==
    IF keywords = <<>> THEN 0
    ELSE (IF Contains(text, Head(keywords)) THEN 1 ELSE 0) + Score(Tail(keywords), text)

\* min(90.0, 60.0 + score * 10)
ScoreConfidence(score) == Min(Pct(90), Pct(60) + score * Pct(10))

Classification(routing, confidence, indicators) ==
    [routing_decision |-> routing, confidence |-> confidence, indicators |-> indicators]

\* QueryClassification(...): confidence is Field(..., ge=0, le=100)
MakeClassification(names, c) ==
    IF "QueryClassification" \notin names THEN Raised(NameError("QueryClassification"))
    ELSE IF ~InPctRange(c.confidence) THEN Raised(Exc("ValidationError", "confidence"))
    ELSE Value(c)

Classify(backtesting_score, rag_score) ==
    IF backtesting_score > rag_score
    THEN Classification("backtesting_first", ScoreConfidence(backtesting_score), backtesting_score)
    ELSE IF rag_score > backtesting_score
    THEN Classification("rag_first", ScoreConfidence(rag_score), rag_score)
    ELSE Classification("hybrid", Pct(70), 0)

\* query is [isStr, text]: user_query.lower() raises AttributeError when it is no string
classify_user_query(names, query) ==
    LET body ==
            IF ~query.isStr THEN Raised(Exc("AttributeError", "lower"))
            ELSE MakeClassification(names,
                    Classify(Score(backtesting_keywords, LowerText(query.text)),
                             Score(rag_keywords, LowerText(query.text))))
    IN IF body.kind = "value" THEN body
       ELSE IF CaughtByExceptException(body.error)
       THEN MakeClassification(names, Classification("hybrid", Pct(50), 0))
       ELSE body

\* the words the modelled queries are made of
Vocabulary ==
    {<<"P", "e", "r", "f", "o", "r", "m", "a", "n", "c", "e">>,
     <<"s", "t", "a", "t", "i", "s", "t", "i", "c", "s">>,
     <<"d", "a", "t", "a", "b", "a", "s", "e">>,
     <<"p", "r", "o", "f", "i", "t", "/", "l", "o", "s", "s">>,
     <<"E", "x", "p", "l", "a", "i", "n">>,
     <<"w", "h", "a", "t">>,
     <<"i", "s">>,
     <<"m", "e", "t", "h", "o", "d", "o", "l", "o", "g", "y">>,
     <<"I", "C", "T">>}

\* "Show me performance statistics and results"
ExampleQuery ==
    <<"S", "h", "o", "w", " ", "m", "e", " ",
      "p", "e", "r", "f", "o", "r", "m", "a", "n", "c", "e", " ",
      "s", "t", "a", "t", "i", "s", "t", "i", "c", "s", " ",
      "a", "n", "d", " ", "r", "e", "s", "u", "l", "t", "s">>

\* ------------------------------------------------------------ formulate_analysis_plan

Letters ==
    {"A", "B", "C", "D", "E", "F", "G", "H", "I", "J", "K", "L", "M",
     "N", "O", "P", "Q", "R", "S", "T", "U", "V", "W", "X", "Y", "Z"}

\* str.upper(), character by character
UpperChar(c) ==
    IF \E u \in Letters : LowerChar(u) = c
    THEN CHOOSE u \in Letters : LowerChar(u) = c
    ELSE c

UpperText(text) == [i \in 1..Len(text) |-> UpperChar(text[i])]

\* any(word in query_lower for word in words)
AnyWordIn(words, query_lower) == \E k \in 1..Len(words) : Contains(query_lower, words[k])

performance_words ==
    <<<<"p", "e", "r", "f", "o", "r", "m", "a", "n", "c", "e">>,
     <<"s", "u", "c", "c", "e", "s", "s">>,
     <<"w", "i", "n", " ", "r", "a", "t", "e">>,
     <<"p", "r", "o", "f", "i", "t">>>>

correlation_words ==
    <<<<"c", "o", "r", "r", "e", "l", "a", "t", "i", "o", "n">>,
     <<"r", "e", "l", "a", "t", "i", "o", "n", "s", "h", "i", "p">>,
     <<"c", "o", "m", "p", "a", "r", "e">>>>

scalping_words ==
    <<<<"s", "c", "a", "l", "p">>,
     <<"m", "i", "n", "u", "t", "e">>,
     <<"q", "u", "i", "c", "k">>,
     <<"f", "a", "s", "t">>>>

swing_words ==
    <<<<"s", "w", "i", "n", "g">>,
     <<"d", "a", "i", "l", "y">>,
     <<"d", "a", "y">>,
     <<"w", "e", "e", "k">>>>

recent_words ==
    <<<<"r", "e", "c", "e", "n", "t">>,
     <<"l", "a", "t", "e", "s", "t">>,
     <<"c", "u", "r", "r", "e", "n", "t">>,
     <<"t", "o", "d", "a", "y">>>>

historical_words ==
    <<<<"h", "i", "s", "t", "o", "r", "i", "c", "a", "l">>,
     <<"p", "a", "s", "t">>,
     <<"h", "i", "s", "t", "o", "r", "y">>,
     <<"l", "o", "n", "g", " ", "t", "e", "r", "m">>>>

symbols ==
    <<<<"e", "u", "r", "u", "s", "d">>,
     <<"g", "b", "p", "u", "s", "d">>,
     <<"u", "s", "d", "j", "p", "y">>,
     <<"a", "u", "d", "u", "s", "d">>,
     <<"u", "s", "d", "c", "h", "f">>,
     <<"u", "s", "d", "c", "a", "d">>,
     <<"n", "z", "d", "u", "s", "d">>,
     <<"x", "a", "u", "u", "s", "d">>,
     <<"x", "a", "g", "u", "s", "d">>,
     <<"u", "s", "3", "0">>,
     <<"n", "a", "s", "1", "0", "0">>,
     <<"s", "p", "x", "5", "0", "0">>,
     <<"u", "k", "1", "0", "0">>,
     <<"g", "e", "r", "4", "0">>,
     <<"j", "p", "n", "2", "2", "5">>>>

major_words ==
    <<<<"m", "a", "j", "o", "r">>,
     <<"e", "u", "r">>,
     <<"g", "b", "p">>,
     <<"u", "s", "d">>,
     <<"j", "p", "y">>>>

session_words ==
    <<<<"l", "o", "n", "d", "o", "n">>,
     <<"n", "e", "w", " ", "y", "o", "r", "k">>,
     <<"a", "s", "i", "a", "n">>,
     <<"s", "e", "s", "s", "i", "o", "n">>>>

liquidity_words ==
    <<<<"l", "i", "q", "u", "i", "d">>,
     <<"v", "o", "l", "u", "m", "e">>,
     <<"a", "c", "t", "i", "v", "e">>>>

high_confidence_words ==
    <<<<"a", "c", "c", "u", "r", "a", "t", "e">>,
     <<"p", "r", "e", "c", "i", "s", "e">>,
     <<"c", "o", "n", "f", "i", "d", "e", "n", "t">>,
     <<"r", "e", "l", "i", "a", "b", "l", "e">>>>

broad_coverage_words ==
    <<<<"b", "r", "o", "a", "d">>,
     <<"c", "o", "m", "p", "r", "e", "h", "e", "n", "s", "i", "v", "e">>,
     <<"a", "l", "l">>,
     <<"e", "v", "e", "r", "y", "t", "h", "i", "n", "g">>>>

\* the first symbol of the list that occurs in the query, upper-cased; None when none does
NoSymbol == [isNone |-> TRUE, text |-> <<>>]

RECURSIVE found_symbol(_, _)
found_symbol(syms, query_lower) ==
    IF syms = <<>> THEN NoSymbol
    ELSE IF Contains(query_lower, Head(syms))
    THEN [isNone |-> FALSE, text |-> UpperText(Head(syms))]
    ELSE found_symbol(Tail(syms), query_lower)

\* the correlation words tried before the performance words
analysis_strategy_correlation_first(query_lower) ==
    IF AnyWordIn(correlation_words, query_lower) THEN "correlation_study"
    ELSE IF AnyWordIn(performance_words, query_lower) THEN "performance_analysis"
    ELSE "structure_detection"

analysis_strategy(query_lower) ==
    IF AnyWordIn(performance_words, query_lower) THEN "performance_analysis"
    ELSE IF AnyWordIn(correlation_words, query_lower) THEN "correlation_study"
    ELSE "structure_detection"

trading_context(query_lower) ==
    IF AnyWordIn(scalping_words, query_lower) THEN "scalping"
    ELSE IF AnyWordIn(swing_words, query_lower) THEN "swing_trading"
    ELSE "position_analysis"

temporal_scope(query_lower) ==
    IF AnyWordIn(recent_words, query_lower) THEN "recent_performance"
    ELSE IF AnyWordIn(historical_words, query_lower) THEN "historical_pattern"
    ELSE "recent_performance"

\* a found symbol is a non-empty string, so it is truthy
asset_focus(query_lower) ==
    IF ~found_symbol(symbols, query_lower).isNone THEN "specific_symbol"
    ELSE IF AnyWordIn(major_words, query_lower) THEN "major_pairs"
    ELSE "major_pairs"

session_relevance(query_lower) ==
    IF AnyWordIn(session_words, query_lower) THEN "specific_session"
    ELSE IF AnyWordIn(liquidity_words, query_lower) THEN "high_liquidity"
    ELSE "all_sessions"

quality_requirements(query_lower) ==
    IF AnyWordIn(high_confidence_words, query_lower) THEN "high_confidence"
    ELSE IF AnyWordIn(broad_coverage_words, query_lower) THEN "broad_coverage"
    ELSE "balanced"

TemporalScope == {"recent_performance", "historical_pattern", "specific_period"}
AssetFocus == {"major_pairs", "cross_pairs", "specific_symbol"}
SessionRelevance == {"high_liquidity", "all_sessions", "specific_session"}

Plan(s, c, t, a, se, q, symbol) ==
    [analysis_strategy |-> s, trading_context |-> c, temporal_scope |-> t, asset_focus |-> a,
     session_relevance |-> se, quality_requirements |-> q, symbol |-> symbol]

\* CoordinatorRequest(...): the six plan fields are Literal types
MakeCoordinatorRequest(names, plan) ==
    IF "CoordinatorRequest" \notin names THEN Raised(NameError("CoordinatorRequest"))
    ELSE IF plan.analysis_strategy \notin AnalysisStrategy
    THEN Raised(Exc("ValidationError", "analysis_strategy"))
    ELSE IF plan.trading_context \notin TradingContext
    THEN Raised(Exc("ValidationError", "trading_context"))
    ELSE IF plan.temporal_scope \notin TemporalScope
    THEN Raised(Exc("ValidationError", "temporal_scope"))
    ELSE IF plan.asset_focus \notin AssetFocus
    THEN Raised(Exc("ValidationError", "asset_focus"))
    ELSE IF plan.session_relevance \notin SessionRelevance
    THEN Raised(Exc("ValidationError", "session_relevance"))
    ELSE IF plan.quality_requirements \notin QualityTier
    THEN Raised(Exc("ValidationError", "quality_requirements"))
    ELSE Value(plan)

\* the plan of the except branch
DefaultPlan ==
    Plan("performance_analysis", "swing_trading", "recent_performance", "major_pairs",
         "all_sessions", "balanced", NoSymbol)

\* the try block: user_query.lower() raises AttributeError when the query is no string
FormulateTry(names, user_query) ==
    IF ~user_query.isStr THEN Raised(Exc("AttributeError", "lower"))
    ELSE LET query_lower == LowerText(user_query.text)
         IN MakeCoordinatorRequest(names,
               Plan(analysis_strategy(query_lower), trading_context(query_lower),
                    temporal_scope(query_lower), asset_focus(query_lower),
                    session_relevance(query_lower), quality_requirements(query_lower),
                    found_symbol(symbols, query_lower)))

\* a formulator that plans a knowledge-first query by the default plan
formulate_analysis_plan_by_routing(names, user_query, classification) ==
    IF classification.routing_decision = "rag_first" THEN MakeCoordinatorRequest(names, DefaultPlan)
    ELSE FormulateTry(names, user_query)

\* the classification argument is never read
formulate_analysis_plan(names, user_query, classification) ==
    LET body == FormulateTry(names, user_query)
    IN IF body.kind = "value" THEN body
       ELSE IF CaughtByExceptException(body.error) THEN MakeCoordinatorRequest(names, DefaultPlan)
       ELSE body

\* the words the modelled plan queries are made of
PlanVocabulary ==
    {<<"P", "e", "r", "f", "o", "r", "m", "a", "n", "c", "e">>,
     <<"c", "o", "r", "r", "e", "l", "a", "t", "i", "o", "n">>,
     <<"s", "c", "a", "l", "p", "i", "n", "g">>,
     <<"t", "o", "d", "a", "y">>,
     <<"r", "e", "l", "i", "a", "b", "l", "e">>,
     <<"a", "l", "l", " ", "E", "U", "R", "U", "S", "D">>}

\* ------------------------------------------------------------ execute_backtesting_analysis

\* what the delegation to the sub-agent meets: the relative import inside the tool
\* fails unless the module was loaded as part of a package; the sub-agent run can
\* raise; its text can be no JSON, JSON of another shape, or a response
DelegationOutcomes ==
    {[packaged |-> FALSE, run |-> "ok"]}
    \cup [packaged : {TRUE}, run : {"raises", "cancelled", "bad_json", "bad_schema", "not_text", "ok"}]

DelegatedResponse ==
    [execution_status |-> "partial", analysis_results |-> NoResults,
     metadata |-> Metadata(7, Pct(70), Pct(52), 245, DefaultFunction, Pct(61)),
     recommendations |-> <<"low_confidence", "extend_time_range">>, warnings |-> <<>>,
     error_details |-> None]

\* BacktestingResponse(**response_data) needs only the name BacktestingResponse
ParsedResponse(names, data) ==
    IF "BacktestingResponse" \notin names THEN Raised(NameError("BacktestingResponse"))
    ELSE IF ~MetadataOk(data.metadata) THEN Raised(Exc("ValidationError", "metadata"))
    ELSE Value(data)

DelegationFailed(names, prefix, e) ==
    MakeResponse(names, "failed", NoResults, ZeroMetadata("none"), <<>>, <<>>,
                 ErrorText(prefix, e.text))

execute_backtesting_analysis(names, d) ==
    LET body ==
            IF ~d.packaged THEN Raised(Exc("ImportError", "attempted relative import with no known parent package"))
            ELSE IF d.run = "raises" THEN Raised(Exc("RuntimeError", "model request failed"))
            ELSE IF d.run = "cancelled" THEN Raised(Exc("CancelledError", ""))
            ELSE IF d.run = "not_text" THEN Raised(Exc("TypeError", "the JSON object must be str"))
            ELSE IF d.run = "bad_json"
                 THEN DelegationFailed(names, "Response parsing error", Exc("JSONDecodeError", "Expecting value"))
            ELSE IF d.run = "bad_schema"
                 THEN DelegationFailed(names, "Response parsing error", Exc("ValidationError", "BacktestingResponse"))
            ELSE ParsedResponse(names, DelegatedResponse)
    IN IF body.kind = "value" THEN body
       ELSE IF CaughtByExceptException(body.error)
       THEN DelegationFailed(names, "Delegation error", body.error)
       ELSE body

\* ------------------------------------------------------------ the wire schema

\* a Python value held where the type is Any: its type, its text (strings, timestamps)
\* and its number (integers in units, floats in hundredths)
PyValue(type, text, num) == [type |-> type, text |-> text, num |-> num]

PyNone == PyValue("NoneType", "", 0)
PyStr(text) == PyValue("str", text, 0)

\* a JSON token: a string, an integer literal, a literal with a fraction, true, false, null
Json(kind, text, num) == [json |-> kind, text |-> text, num |-> num]

\* the JSON encoder goes by the runtime type of the value: a datetime is written as
\* its ISO text and a Decimal as its digits, both as JSON strings
SerializeAny(v) ==
    CASE v.type = "str" -> Json("string", v.text, 0)
      [] v.type = "datetime" -> Json("string", v.text, 0)
      [] v.type = "Decimal" -> Json("string", v.text, 0)
      [] v.type = "int" -> Json("integer", "", v.num)
      [] v.type = "float" -> Json("real", "", v.num)
      [] v.type = "bool" -> Json(IF v.num = 1 THEN "true" ELSE "false", "", 0)
      [] OTHER -> Json("null", "", 0)

\* a decoder that reads every token as text
ParseAny_text(w) ==
    CASE w.json = "string" -> PyStr(w.text)
      [] w.json = "integer" -> PyStr(w.text)
      [] w.json = "real" -> PyStr(w.text)
      [] w.json = "true" -> PyStr("true")
      [] w.json = "false" -> PyStr("false")
      [] OTHER -> PyNone

\* json.loads: a JSON string is a str whatever it was before it was written
ParseAny(w) ==
    CASE w.json = "string" -> PyStr(w.text)
      [] w.json = "integer" -> PyValue("int", "", w.num)
      [] w.json = "real" -> PyValue("float", "", w.num)
      [] w.json = "true" -> PyValue("bool", "", 1)
      [] w.json = "false" -> PyValue("bool", "", 0)
      [] OTHER -> PyNone

SerializeMetadata(m) ==
    [sample_size |-> Json("integer", "", m.sample_size),
     data_coverage |-> Json("real", "", m.data_coverage),
     confidence_level |-> Json("real", "", m.confidence_level),
     execution_time_ms |-> Json("integer", "", m.execution_time_ms),
     sql_function_used |-> Json("string", m.sql_function_used, 0),
     data_quality_score |-> Json("real", "", m.data_quality_score)]

\* BacktestingResponse.model_dump_json()
model_dump_json(response) ==
    [execution_status |-> Json("string", response.execution_status, 0),
     analysis_results |-> [i \in 1..Len(response.analysis_results) |->
                              SerializeAny(response.analysis_results[i])],
     metadata |-> SerializeMetadata(response.metadata),
     recommendations |-> [i \in 1..Len(response.recommendations) |->
                             Json("string", response.recommendations[i], 0)],
     warnings |-> [i \in 1..Len(response.warnings) |-> Json("string", response.warnings[i], 0)],
     error_details |-> SerializeAny(response.error_details)]

\* a float field takes an integer literal too; the number is kept in hundredths
FloatFieldOk(w) == w.json \in {"integer", "real"}
FloatField(w) == IF w.json = "integer" THEN Pct(w.num) ELSE w.num

\* an int field takes a literal with a fraction when the fraction is zero
IntFieldOk(w) == w.json = "integer" \/ (w.json = "real" /\ w.num % 100 = 0)
IntField(w) == IF w.json = "integer" THEN w.num ELSE w.num \div 100

StrListOk(ws) == \A i \in 1..Len(ws) : ws[i].json = "string"

WireOk(wire) ==
    /\ wire.execution_status.json = "string"
    /\ wire.execution_status.text \in {"success", "partial", "failed"}
    /\ IntFieldOk(wire.metadata.sample_size)
    /\ FloatFieldOk(wire.metadata.data_coverage)
    /\ FloatFieldOk(wire.metadata.confidence_level)
    /\ IntFieldOk(wire.metadata.execution_time_ms)
    /\ wire.metadata.sql_function_used.json = "string"
    /\ FloatFieldOk(wire.metadata.data_quality_score)
    /\ StrListOk(wire.recommendations)
    /\ StrListOk(wire.warnings)
    /\ wire.error_details.json \in {"string", "null"}

ParsedMetadata(m) ==
    Metadata(IntField(m.sample_size), FloatField(m.data_coverage), FloatField(m.confidence_level),
             IntField(m.execution_time_ms), m.sql_function_used.text,
             FloatField(m.data_quality_score))

\* response_data = json.loads(result.data); BacktestingResponse(**response_data)
ParseResponse(names, wire) ==
    IF "BacktestingResponse" \notin names THEN Raised(NameError("BacktestingResponse"))
    ELSE IF ~WireOk(wire) \/ ~MetadataOk(ParsedMetadata(wire.metadata))
    THEN Raised(Exc("ValidationError", "BacktestingResponse"))
    ELSE Value([execution_status |-> wire.execution_status.text,
                analysis_results |-> [i \in 1..Len(wire.analysis_results) |->
                                         ParseAny(wire.analysis_results[i])],
                metadata |-> ParsedMetadata(wire.metadata),
                recommendations |-> [i \in 1..Len(wire.recommendations) |->
                                        wire.recommendations[i].text],
                warnings |-> [i \in 1..Len(wire.warnings) |-> wire.warnings[i].text],
                error_details |-> ParseAny(wire.error_details)])

\* what a cell of a returned row can hold
CellInputs ==
    {PyStr("London"), PyValue("int", "", 25), PyValue("float", "", 10855),
     PyValue("bool", "", 1), PyNone,
     PyValue("datetime", "2024-01-15T10:30:00Z", 0), PyValue("Decimal", "1.0855", 0)}

\* the responses the class admits, the cells of analysis_results taken one at a time
ResponseInputs ==
    [execution_status : {"success", "partial", "failed"},
     analysis_results : {<<>>} \cup {<<c>> : c \in CellInputs},
     metadata : {ZeroMetadata("none"),
                 Metadata(20, Pct(100), Pct(90), 245, DefaultFunction, Pct(95))},
     recommendations : {<<>>, <<"High confidence results - suitable for strategy validation">>},
     warnings : {<<>>, <<"Sample size 7 below recommended 20">>},
     error_details : {PyNone, PyStr("Database error: function does not exist")}]

\* ------------------------------------------------------------ ICTBacktestingSystem

\* what self.coordinator.run does with a query: its text, or an exception; the
\* NameError is the one the delegation tool raises
RunExceptions ==
    {Exc("Exception", "Database connection failed"),
     Exc("TimeoutError", ""),
     Exc("UnexpectedModelBehavior", "Exceeded maximum retries"),
     NameError("BacktestingMetadata"),
     Exc("CancelledError", "")}

RunOutcomes ==
    [kind : {"data"},
     text : {"ICT methodology explanation", "Fair value gap analysis results",
             "Liquidity sweep statistics"},
     exc : {NoExc}]
    \cup [kind : {"raise"}, text : {""}, exc : RunExceptions]

\* result.data handed back as it is
Answer(text) == ErrorText(None, text)

\* a handler that lets a NameError pass
process_query_unguarded(user_query, run) ==
    IF ~user_query.isStr
    THEN Value(ErrorText("Error processing query", "'NoneType' object is not subscriptable"))
    ELSE IF run.kind = "data" THEN Value(Answer(run.text))
    ELSE IF run.exc.type \notin {"NameError", "CancelledError"}
    THEN Value(ErrorText("Error processing query", run.exc.text))
    ELSE Raised(run.exc)

\* user_query[:100] in the log line raises TypeError when the query is no string,
\* before the coordinator runs
process_query(user_query, run) ==
    IF ~user_query.isStr
    THEN Value(ErrorText("Error processing query", "'NoneType' object is not subscriptable"))
    ELSE IF run.kind = "data" THEN Value(Answer(run.text))
    ELSE IF CaughtByExceptException(run.exc)
    THEN Value(ErrorText("Error processing query", run.exc.text))
    ELSE Raised(run.exc)

\* ------------------------------------------------------------ ExternalSSDManager

MessageKeys == {"ssd", "ollama", "supabase", "services"}

\* error_messages: a key the dict does not hold maps to None
NoMessages == [k \in MessageKeys |-> None]

\* error_messages[key] = message, and error_messages.pop(key, None)
Put(messages, key, message) == [messages EXCEPT ![key] = message]
Pop(messages, key) == [messages EXCEPT ![key] = None]

ConnectionStatus(ssd, ollama, supabase, last_check, messages) ==
    [ssd_mounted |-> ssd, ollama_available |-> ollama, supabase_available |-> supabase,
     last_check |-> last_check, error_messages |-> messages]

\* what the file system shows of the volume and of the two service paths
SsdStates ==
    {"mounted", "not_found", "not_a_mount", "no_ollama_path", "no_supabase_path", "raises"}

\* what GET /api/tags gives, and what connecting and SELECT 1 give
OllamaOutcomes == {"200", "503", "raises"}
SupabaseOutcomes == {"connected", "raises"}

\* check_ssd_mounted: the answer, and error_messages after it
check_ssd_mounted(messages, ssd) ==
    CASE ssd = "mounted" -> [result |-> TRUE, messages |-> Pop(messages, "ssd")]
      [] ssd = "not_found" ->
            [result |-> FALSE,
             messages |-> Put(messages, "ssd", "External SSD not found at /Volumes/Extreme SSD")]
      [] ssd = "not_a_mount" ->
            [result |-> FALSE,
             messages |-> Put(messages, "ssd", "External SSD path exists but is not mounted")]
      [] ssd = "no_ollama_path" ->
            [result |-> FALSE, messages |-> Put(messages, "ssd", "Ollama path not found")]
      [] ssd = "no_supabase_path" ->
            [result |-> FALSE, messages |-> Put(messages, "ssd", "Supabase path not found")]
      [] OTHER -> [result |-> FALSE, messages |-> Put(messages, "ssd", "SSD check failed")]

\* check_ollama_health, from the answer of the service on
check_ollama_health(messages, outcome) ==
    CASE outcome = "200" -> [result |-> TRUE, messages |-> Pop(messages, "ollama")]
      [] outcome = "503" -> [result |-> FALSE, messages |-> Put(messages, "ollama", "Ollama HTTP 503")]
      [] OTHER -> [result |-> FALSE, messages |-> Put(messages, "ollama", "Ollama connection failed")]

\* check_supabase_health, from the answer of the database on
check_supabase_health(messages, outcome) ==
    IF outcome = "connected" THEN [result |-> TRUE, messages |-> Pop(messages, "supabase")]
    ELSE [result |-> FALSE, messages |-> Put(messages, "supabase", "Supabase connection failed")]

\* an asyncio task: none, created, waiting (for the service), done with its result
Task(state, result) == [state |-> state, result |-> result]
NoTask == Task("none", FALSE)

\* a task counted as finished as soon as it exists
TaskDone_created(task) == task.state # "none"

\* "await task" goes on when the task is done
TaskDone(task) == task.state = "done"

\* the manager: its status, where full_health_check stands, the two probe tasks, and
\* the time, counted in health checks begun
Manager(status, check, ollama_task, supabase_task, now) ==
    [status |-> status, check |-> check, ollama_task |-> ollama_task,
     supabase_task |-> supabase_task, now |-> now]

\* ExternalSSDManager.__init__
NewManager ==
    Manager(ConnectionStatus(FALSE, FALSE, FALSE, 0, NoMessages), "idle", NoTask, NoTask, 0)

\* ------------------------------------------------------------ state machine

NoCall == [op |-> "none"]
NoTrace == [db |-> <<>>, validated |-> FALSE, locals |-> NoLocals]

Init ==
    /\ registry = EmptyRegistry
    /\ pc = "start"
    /\ call = NoCall
    /\ ret = Value(None)
    /\ trace = NoTrace
    /\ manager = NewManager

Entry(name, category) == [name |-> name, category |-> category]

\* function_signatures.json as initialize_dependencies can find it
DeclarationFiles ==
    {[kind |-> "absent", functions |-> <<>>],
     [kind |-> "malformed", functions |-> <<>>],
     [kind |-> "list", functions |-> <<>>],
     [kind |-> "list", functions |->
        <<Entry("ict_order_blocks", None), Entry("identify_market_structure_breaks", "market_structure"),
          Entry("analyze_session_performance", "session_analysis")>>],
     [kind |-> "list", functions |->
        <<Entry("detect_fair_value_gaps", "correlation"), Entry(None, "order_blocks")>>],
     [kind |-> "list", functions |->
        <<Entry("analyze_session_performance", "session_analysis"),
          Entry("update_order_block_performance", "order_blocks")>>],
     [kind |-> "list", functions |->
        <<Entry("bullish_order_block_scan", "order_blocks"), Entry("bearish_order_block_scan",
          "order_blocks"), Entry("order_block_retest_rate", "order_blocks"),
          Entry("order_block_mitigation", "order_blocks"), Entry("order_block_breaker", "order_blocks"),
          Entry("order_block_volume", "order_blocks"), Entry("order_block_age", "order_blocks"),
          Entry("order_block_session_split", "order_blocks"), Entry("order_block_confluence",
          "order_blocks"), Entry("order_block_invalidation", "order_blocks"),
          Entry("order_block_displacement", "order_blocks"),
          Entry("liquidity_sweep_scan", None)>>]}

\* initialize_dependencies: the registry is loaded once, before any tool runs
LoadFunctions ==
    /\ pc = "start"
    /\ pc' = "idle"
    /\ \E file \in DeclarationFiles :
          /\ registry' = load_functions(registry, file)
          /\ call' = [op |-> "load_functions", file |-> file]
    /\ UNCHANGED <<ret, trace, manager>>

RawInputs == [isList : {TRUE}, len : 0..MaxRows] \cup {[isList |-> FALSE, len |-> 0]}
QualityInputs == QualityTier \cup {"unknown"}

DoValidateResults(raw, q) ==
    /\ call' = [op |-> "validate_results", raw |-> raw, quality_requirements |-> q]
    /\ ret' = Value(validate_results(raw, q))
    /\ trace' = NoTrace
    /\ UNCHANGED <<registry, manager>>

ValidateResults ==
    /\ pc = "idle"
    /\ pc' = "returned"
    /\ \E raw \in RawInputs, q \in QualityInputs : DoValidateResults(raw, q)

StrategyInputs == AnalysisStrategy \cup {"unknown"}

SuggestFunctions ==
    /\ pc = "idle"
    /\ pc' = "returned"
    /\ \E s \in StrategyInputs, c \in TradingContext :
          /\ call' = [op |-> "suggest_functions", analysis_strategy |-> s, trading_context |-> c]
          /\ ret' = Value(suggest_functions(registry, s, c))
          /\ registry' = RegistryAfterSuggest(registry, s)
    /\ trace' = NoTrace
    /\ UNCHANGED manager

SelectOptimalFunction ==
    /\ pc = "idle"
    /\ pc' = "returned"
    /\ \E s \in AnalysisStrategy, c \in TradingContext, q \in QualityTier, throws \in BOOLEAN :
          /\ call' = [op |-> "select_optimal_function", analysis_strategy |-> s,
                      trading_context |-> c, quality_requirements |-> q,
                      suggestThrows |-> throws]
          /\ ret' = ReturnSelection(BacktestingAgentNames, select_optimal_function(registry, ~throws, s, c, q))
          /\ registry' = RegistryAfterSelect(registry, ~throws, s)
    /\ trace' = NoTrace
    /\ UNCHANGED manager

FunctionNameInputs == {DefaultFunction, "detect_fair_value_gaps", "ict_order_blocks", "no_such_function"}
ParameterInputs == {Params("4h", 10), ("session" :> "London") @@ Params("1d", 5)}

ExecuteSqlFunction ==
    /\ pc = "idle"
    /\ pc' = "returned"
    /\ \E fn \in FunctionNameInputs, ps \in ParameterInputs, outcome \in DbOutcomes :
          \E r \in {execute_sql_function(registry, fn, ps, outcome)} :
             /\ call' = [op |-> "execute_sql_function", function_name |-> fn,
                         parameters |-> ps, outcome |-> outcome]
             /\ ret' = r.ret
             /\ trace' = [db |-> r.db, validated |-> FALSE, locals |-> NoLocals]
    /\ UNCHANGED <<registry, manager>>

Request(s, c, q, symbol, timeframe, session) ==
    [analysis_strategy |-> s, trading_context |-> c, quality_requirements |-> q,
     symbol |-> symbol, timeframe |-> timeframe, session |-> session]

SymbolInputs == {None, "EURUSD"}
TimeframeInputs == {None, "15m", "1d", "1w"}
SessionInputs == {None, "London"}

RequestInputs ==
    {[parse |-> "ok", request |-> Request(s, c, q, sy, tf, se)] :
        s \in AnalysisStrategy, c \in TradingContext, q \in QualityTier,
        sy \in SymbolInputs, tf \in TimeframeInputs, se \in SessionInputs}
    \cup
    {[parse |-> p, request |-> Request(None, None, None, None, None, None)] :
        p \in {"bad_json", "bad_schema"}}

ProcessCoordinatorRequest ==
    /\ pc = "idle"
    /\ pc' = "returned"
    /\ \E input \in RequestInputs, throws \in BOOLEAN, outcome \in DbOutcomes :
          \E r \in {process_coordinator_request(BacktestingAgentNames, registry, input, throws, outcome)} :
             /\ call' = [op |-> "process_coordinator_request", input |-> input,
                         suggestThrows |-> throws, outcome |-> outcome]
             /\ ret' = r.ret
             /\ trace' = [db |-> r.db, validated |-> r.validated, locals |-> r.locals]
             /\ registry' = RegistryAfterRequest(registry, input, throws)
    /\ UNCHANGED manager

WordSeqs == UNION {[1..k -> Vocabulary] : k \in 0..MaxWords}

QueryInputs ==
    {[isStr |-> TRUE, text |-> Join(ws)] : ws \in WordSeqs}
    \cup {[isStr |-> TRUE, text |-> ExampleQuery]}
    \cup {[isStr |-> FALSE, text |-> <<>>]}

ClassifyUserQuery ==
    /\ pc = "idle"
    /\ pc' = "returned"
    /\ \E query \in QueryInputs :
          /\ call' = [op |-> "classify_user_query", query |-> query]
          /\ ret' = classify_user_query(CoordinatorAgentNames, query)
    /\ trace' = NoTrace
    /\ UNCHANGED <<registry, manager>>

PlanWordSeqs == UNION {[1..k -> PlanVocabulary] : k \in 0..MaxWords}

PlanQueryInputs ==
    {[isStr |-> TRUE, text |-> Join(ws)] : ws \in PlanWordSeqs}
    \cup {[isStr |-> FALSE, text |-> <<>>]}

\* classifications a caller can pass along with the query
ClassificationInputs ==
    {Classification("rag_first", Pct(90), 3),
     Classification("backtesting_first", Pct(70), 1),
     Classification("hybrid", Pct(50), 0)}

ExecuteBacktestingAnalysis ==
    /\ pc = "idle"
    /\ pc' = "returned"
    /\ \E d \in DelegationOutcomes :
          /\ call' = [op |-> "execute_backtesting_analysis", delegation |-> d]
          /\ ret' = execute_backtesting_analysis(CoordinatorAgentNames, d)
    /\ trace' = NoTrace
    /\ UNCHANGED <<registry, manager>>

\* the caller takes the result; the next tool call can start
Return ==
    /\ pc = "returned"
    /\ pc' = "idle"
    /\ call' = NoCall
    /\ ret' = Value(None)
    /\ trace' = NoTrace
    /\ UNCHANGED <<registry, manager>>

Next ==
    \/ LoadFunctions
    \/ ValidateResults
    \/ SelectOptimalFunction
    \/ ExecuteSqlFunction
    \/ ProcessCoordinatorRequest
    \/ ClassifyUserQuery
    \/ ExecuteBacktestingAnalysis
    \/ SuggestFunctions
    \/ Return

Spec == Init /\ [][Next]_vars

\* validate_results called again and again, each call on fresh arguments
ValidateAgain ==
    /\ pc' = "returned"
    /\ \E raw \in RawInputs, q \in QualityInputs : DoValidateResults(raw, q)

ValidatorSpec == Init /\ [][ValidateAgain]_vars

\* the coordinator, ready for a tool call, its registry loaded without a declaration file
PlannerInit ==
    /\ registry = load_functions(EmptyRegistry, [kind |-> "absent", functions |-> <<>>])
    /\ pc = "idle"
    /\ call = NoCall
    /\ ret = Value(None)
    /\ trace = NoTrace
    /\ manager = NewManager

FormulateAnalysisPlan ==
    /\ pc = "idle"
    /\ pc' = "returned"
    /\ \E user_query \in PlanQueryInputs, classification \in ClassificationInputs :
          /\ call' = [op |-> "formulate_analysis_plan", user_query |-> user_query,
                      classification |-> classification]
          /\ ret' = formulate_analysis_plan(CoordinatorAgentNames, user_query, classification)
    /\ trace' = NoTrace
    /\ UNCHANGED <<registry, manager>>

PlannerSpec == PlannerInit /\ [][FormulateAnalysisPlan \/ Return]_vars

\* a response written to the wire and read back by the coordinator
RoundTrip ==
    /\ pc = "idle"
    /\ pc' = "returned"
    /\ \E response \in ResponseInputs :
          /\ call' = [op |-> "round_trip", response |-> response]
          /\ ret' = ParseResponse(CoordinatorAgentNames, model_dump_json(response))
    /\ trace' = NoTrace
    /\ UNCHANGED <<registry, manager>>

WireSpec == PlannerInit /\ [][RoundTrip \/ Return]_vars

SystemQueryInputs ==
    {[isStr |-> TRUE, text |-> ExampleQuery], [isStr |-> TRUE, text |-> <<>>],
     [isStr |-> FALSE, text |-> <<>>]}

\* how many queries the sequence has seen, and whether one of them failed
QueriesSoFar == IF call.op = "process_query" THEN call.position ELSE 0
FailedSoFar ==
    /\ call.op = "process_query"
    /\ (call.failed_before \/ ~call.user_query.isStr \/ call.run.kind = "raise")

\* the caller's loop: one query after the other, as long as no exception reaches it
ProcessQuery ==
    /\ pc \in {"idle", "returned"}
    /\ ret.kind = "value"
    /\ QueriesSoFar < MaxQueries
    /\ pc' = "returned"
    /\ \E user_query \in SystemQueryInputs, run \in RunOutcomes :
          /\ call' = [op |-> "process_query", user_query |-> user_query, run |-> run,
                      position |-> QueriesSoFar + 1, failed_before |-> FailedSoFar]
          /\ ret' = process_query(user_query, run)
    /\ trace' = NoTrace
    /\ UNCHANGED <<registry, manager>>

SystemSpec == PlannerInit /\ [][ProcessQuery]_vars

\* full_health_check up to its first await: the mount check, then either the two
\* tasks are created or the whole check is over
StartHealthCheck ==
    /\ manager.check = "idle"
    /\ manager.now < MaxChecks
    /\ \E ssd \in SsdStates :
          LET mount == check_ssd_mounted(manager.status.error_messages, ssd)
          IN manager' =
                IF mount.result
                THEN Manager([manager.status EXCEPT !.ssd_mounted = TRUE,
                                                    !.error_messages = mount.messages],
                             "await_ollama", Task("created", FALSE), Task("created", FALSE),
                             manager.now + 1)
                ELSE Manager(ConnectionStatus(FALSE, FALSE, FALSE, manager.now + 1,
                                 Put(mount.messages, "services",
                                     "Services unavailable - SSD not mounted")),
                             "returned", NoTask, NoTask, manager.now + 1)
    /\ UNCHANGED <<registry, pc, call, ret, trace>>

\* the probes run up to their request
OllamaProbeStart ==
    /\ manager.ollama_task.state = "created"
    /\ manager' = [manager EXCEPT !.ollama_task = Task("waiting", FALSE)]
    /\ UNCHANGED <<registry, pc, call, ret, trace>>

SupabaseProbeStart ==
    /\ manager.supabase_task.state = "created"
    /\ manager' = [manager EXCEPT !.supabase_task = Task("waiting", FALSE)]
    /\ UNCHANGED <<registry, pc, call, ret, trace>>

\* the service answers, the probe records it and its task is done
OllamaProbeFinish ==
    /\ manager.ollama_task.state = "waiting"
    /\ \E outcome \in OllamaOutcomes :
          LET probe == check_ollama_health(manager.status.error_messages, outcome)
          IN manager' = [manager EXCEPT !.ollama_task = Task("done", probe.result),
                                        !.status.error_messages = probe.messages]
    /\ UNCHANGED <<registry, pc, call, ret, trace>>

SupabaseProbeFinish ==
    /\ manager.supabase_task.state = "waiting"
    /\ \E outcome \in SupabaseOutcomes :
          LET probe == check_supabase_health(manager.status.error_messages, outcome)
          IN manager' = [manager EXCEPT !.supabase_task = Task("done", probe.result),
                                        !.status.error_messages = probe.messages]
    /\ UNCHANGED <<registry, pc, call, ret, trace>>

\* self.status.ollama_available = await ollama_task
AwaitOllamaTask ==
    /\ manager.check = "await_ollama"
    /\ TaskDone(manager.ollama_task)
    /\ manager' = [manager EXCEPT !.status.ollama_available = manager.ollama_task.result,
                                  !.check = "await_supabase"]
    /\ UNCHANGED <<registry, pc, call, ret, trace>>

\* self.status.supabase_available = await supabase_task, and the rest of the check
AwaitSupabaseTask ==
    /\ manager.check = "await_supabase"
    /\ TaskDone(manager.supabase_task)
    /\ manager' = [manager EXCEPT !.status.supabase_available = manager.supabase_task.result,
                                  !.status.last_check = manager.now,
                                  !.check = "returned"]
    /\ UNCHANGED <<registry, pc, call, ret, trace>>

\* the caller has the status; the next check can begin
HealthCheckReturn ==
    /\ manager.check = "returned"
    /\ manager' = [manager EXCEPT !.check = "idle", !.ollama_task = NoTask,
                                  !.supabase_task = NoTask]
    /\ UNCHANGED <<registry, pc, call, ret, trace>>

HealthNext ==
    \/ StartHealthCheck
    \/ OllamaProbeStart
    \/ SupabaseProbeStart
    \/ OllamaProbeFinish
    \/ SupabaseProbeFinish
    \/ AwaitOllamaTask
    \/ AwaitSupabaseTask
    \/ HealthCheckReturn

HealthSpec == PlannerInit /\ [][HealthNext]_vars

CategoryInputs == {"order_blocks", "session_analysis", "general", "no_such_category"}

GetFunction ==
    /\ pc = "idle"
    /\ pc' = "returned"
    /\ \E name \in FunctionNameInputs :
          /\ call' = [op |-> "get_function", name |-> name]
          /\ ret' = Value(get_function(registry, name))
    /\ trace' = NoTrace
    /\ UNCHANGED <<registry, manager>>

GetFunctionsByCategory ==
    /\ pc = "idle"
    /\ pc' = "returned"
    /\ \E category \in CategoryInputs :
          /\ call' = [op |-> "get_functions_by_category", category |-> category]
          /\ ret' = Value(get_functions_by_category(registry, category))
    /\ trace' = NoTrace
    /\ UNCHANGED <<registry, manager>>

RegistryNext ==
    \/ LoadFunctions
    \/ GetFunction
    \/ GetFunctionsByCategory
    \/ SuggestFunctions
    \/ SelectOptimalFunction
    \/ ExecuteSqlFunction
    \/ ProcessCoordinatorRequest
    \/ Return

RegistrySpec == Init /\ [][RegistryNext]_vars

\* ------------------------------------------------------------ the claims

\* the tiers as the specification states them: (min_sample, min_coverage_pct, min_confidence_pct)
StatedTiers ==
    [high_confidence |-> <<20, 80, 90>>, balanced |-> <<10, 70, 75>>, broad_coverage |-> <<5, 50, 60>>]

StatedMinSample(tier) == StatedTiers[tier][1]
StatedMinCoverage(tier) == StatedTiers[tier][2]
StatedMinConfidence(tier) == StatedTiers[tier][3]

\* a call of validate_results on a list of rows under one of the three tiers
ValidatedCall(c) ==
    c.op = "validate_results" /\ c.raw.isList /\ c.quality_requirements \in QualityTier

HasWarning(v, kind) == \E i \in 1..Len(v.warnings) : v.warnings[i].kind = kind

Hits(keywords, text) == Cardinality({i \in 1..Len(keywords) : Contains(text, keywords[i])})

ProcessedRequest ==
    /\ call.op = "process_coordinator_request"
    /\ call.input.parse = "ok"
    /\ call.outcome.exc.type # "CancelledError"

\* the status the specification derives: path 1 on a gateway failure, else from the
\* validation of the returned rows
StatedStatus ==
    IF trace.locals.gateway = "failure" THEN "failed"
    ELSE LET v == validate_results([isList |-> TRUE, len |-> call.outcome.n],
                                   call.input.request.quality_requirements)
         IN IF v.is_valid /\ v.confidence_level > Pct(75) THEN "success"
            ELSE IF v.sample_size > 0 THEN "partial"
            ELSE "failed"

\* C2: the response carries exactly one of success, partial, failed, derived in this
\* order: gateway failure -> failed; else is_valid and confidence_level > 75 ->
\* success; else sample_size > 0 -> partial; else failed.
C2_StatusDerivation ==
    ProcessedRequest =>
        /\ ret.kind = "value"
        /\ ret.value.execution_status \in {"success", "partial", "failed"}
        /\ ret.value.execution_status = StatedStatus

\* a call that met one of the faults the pipeline is to absorb
InternalFault ==
    \/ call.op = "process_coordinator_request"
          /\ (call.input.parse # "ok" \/ call.suggestThrows \/ trace.locals.gateway = "failure")
    \/ call.op = "execute_backtesting_analysis"
          /\ (~call.delegation.packaged \/ call.delegation.run # "ok")

Cancelled ==
    \/ call.op = "process_coordinator_request" /\ call.outcome.exc.type = "CancelledError"
    \/ call.op = "execute_backtesting_analysis" /\ call.delegation.run = "cancelled"

\* C3: process_coordinator_request and execute_backtesting_analysis never raise: every
\* call returns a response, and a call that met an internal fault returns status
\* failed with an error_details string.  A call whose task was cancelled is the
\* subject of C5 and is left out here.
C3_NeverRaises ==
    (call.op \in {"process_coordinator_request", "execute_backtesting_analysis"} /\ ~Cancelled) =>
        /\ ret.kind = "value"
        /\ ret.value.execution_status \in {"success", "partial", "failed"}
        /\ (InternalFault /\ ~(call.op = "process_coordinator_request" /\ trace.locals.gateway = "success"))
              => (ret.value.execution_status = "failed" /\ ret.value.error_details # None)

\* C4: when the gateway reports failure the response is failed, with empty results,
\* zeroed metadata naming the selected function, the gateway's error as error_details,
\* and the validator is not consulted.
C4_GatewayFailureResponse ==
    (ProcessedRequest /\ trace.locals.gateway = "failure") =>
        /\ ret.kind = "value"
        /\ ret.value.execution_status = "failed"
        /\ ret.value.analysis_results = NoResults
        /\ ret.value.metadata = ZeroMetadata(trace.locals.selected)
        /\ ret.value.error_details = trace.locals.gateway_error
        /\ ret.value.error_details # None
        /\ ~trace.validated

\* C5: a database call that times out or is cancelled surfaces as a failed response
\* of the gateway-failure path, never as partial or success and never as an exception.
C5_TimeoutSurfacesAsFailed ==
    (/\ call.op = "process_coordinator_request"
     /\ trace.db # <<>>
     /\ call.outcome.exc.type \in {"TimeoutError", "CancelledError"}) =>
        /\ ret.kind = "value"
        /\ ret.value.execution_status = "failed"
        /\ trace.locals.gateway = "failure"

\* C6: the parameter map handed to the database never has a session entry when its
\* timeframe is 1d or 1w.
C6_NoSessionForDailyOrWeekly ==
    call.op = "process_coordinator_request" =>
        \A i \in 1..Len(trace.db) :
            trace.db[i].parameters["timeframe"] \in {"1d", "1w"}
                => "session" \notin DOMAIN trace.db[i].parameters

\* C7: 25 rows under the balanced tier give data_coverage 100, confidence_level 75 and
\* status partial.
C7_TwentyFiveRowsBalanced ==
    (/\ ProcessedRequest
     /\ call.input.request.quality_requirements = "balanced"
     /\ trace.locals.gateway = "success"
     /\ call.outcome.n = 25) =>
        /\ ret.kind = "value"
        /\ ret.value.metadata.sample_size = 25
        /\ ret.value.metadata.data_coverage = Pct(100)
        /\ ret.value.metadata.confidence_level = Pct(75)
        /\ ret.value.execution_status = "partial"

ClassifiedExample ==
    call.op = "classify_user_query" /\ call.query.isStr /\ call.query.text = ExampleQuery

\* C11 as stated: for "Show me performance statistics and results" the classifier
\* finds 4 execution keywords and no knowledge keyword, and answers backtesting_first
\* with confidence min(90, 60 + 40) = 90.
C11_FourHits ==
    ClassifiedExample =>
        /\ ret.kind = "value"
        /\ Hits(backtesting_keywords, LowerText(ExampleQuery)) = 4
        /\ Hits(rag_keywords, LowerText(ExampleQuery)) = 0
        /\ ret.value.indicators = 4
        /\ ret.value.routing_decision = "backtesting_first"
        /\ ret.value.confidence = Min(Pct(90), Pct(60) + Pct(40))

\* C11 amended: for "Show me performance statistics and results" the classifier finds
\* 3 execution keywords (performance, statistics, results) and no knowledge keyword,
\* and answers backtesting_first with confidence min(90, 60 + 30) = 90.
C11_ThreeHits ==
    ClassifiedExample =>
        /\ ret.kind = "value"
        /\ {i \in 1..Len(backtesting_keywords) :
               Contains(LowerText(ExampleQuery), backtesting_keywords[i])} = {1, 3, 4}
        /\ Hits(rag_keywords, LowerText(ExampleQuery)) = 0
        /\ ret.value.indicators = 3
        /\ ret.value.routing_decision = "backtesting_first"
        /\ ret.value.confidence = Min(Pct(90), Pct(60) + Pct(30))
        /\ ret.value.confidence = Pct(90)

C11_Witness ==
    /\ ClassifiedExample
    /\ pc = "returned"
    /\ ret.kind = "value"
    /\ ret.value.routing_decision = "backtesting_first"
    /\ ret.value.indicators = 3

\* C12: classify_user_query never raises; a query that is no string gets routing hybrid
\* with confidence 50, and every returned confidence lies within [0, 100].
C12_ClassifierNeverFails ==
    call.op = "classify_user_query" =>
        /\ ret.kind = "value"
        /\ ret.value.routing_decision \in {"rag_first", "backtesting_first", "hybrid"}
        /\ ret.value.confidence >= Pct(0)
        /\ ret.value.confidence <= Pct(100)
        /\ ~call.query.isStr =>
              (ret.value.routing_decision = "hybrid" /\ ret.value.confidence = Pct(50))

C12_Witness ==
    /\ call.op = "classify_user_query"
    /\ ~call.query.isStr
    /\ ret.kind = "value"
    /\ ret.value.routing_decision = "hybrid"
    /\ ret.value.confidence = Pct(50)

\* the preferred names as the selector's strategy table states them
StatedPreferred ==
    [performance_analysis |-> <<"update_order_block_performance", "analyze_session_performance">>,
     correlation_study |-> <<"detect_fair_value_gaps", "analyze_session_performance">>,
     structure_detection |-> <<"detect_fair_value_gaps", "update_order_block_performance">>]

\* a finished call of select_optimal_function whose registry lookup did not throw
Selected == call.op = "select_optimal_function" /\ ~call.suggestThrows

\* the suggestion list of a finished call
SuggestionList == suggest_functions(registry, call.analysis_strategy, call.trading_context)

C14_SelectionNeverRaises ==
    call.op = "select_optimal_function" =>
        /\ ret.kind = "value"
        /\ ret.value.recommended_function \notin {None, ""}
        /\ call.suggestThrows =>
              /\ ret.value.recommended_function = "update_order_block_performance"
              /\ ret.value.parameters = [timeframe |-> "4h", min_sample_size |-> 10]
              /\ ret.value.confidence = Pct(50)
              /\ ret.value.alternative_functions = <<>>
              /\ ret.value.reasoning.prefix = "Fallback selection due to error"
              /\ ret.value.reasoning.detail = RegistryError.text

\* the lookup threw on a request whose own parameters would have been 15m and 20
C14_Witness ==
    /\ call.op = "select_optimal_function"
    /\ call.suggestThrows
    /\ call.trading_context = "scalping"
    /\ call.quality_requirements = "high_confidence"
    /\ ret.value.parameters = [timeframe |-> "4h", min_sample_size |-> 10]
    /\ ret.value.confidence = Pct(50)

\* a declaration file that cannot be read to its end
Unreadable(file) ==
    \/ file.kind \in {"absent", "malformed"}
    \/ \E i \in 1..Len(file.functions) : file.functions[i].name = None

StatedMapping ==
    [performance_analysis |-> <<"order_blocks", "session_analysis">>,
     correlation_study |-> <<"correlation", "structure_analysis">>,
     structure_detection |-> <<"market_structure", "pattern_detection">>,
     unknown |-> <<>>]

Indexed(category) ==
    IF category \in DOMAIN registry.categories THEN registry.categories[category] ELSE <<>>

\* the names indexed under the categories of a strategy, category by category
Collected(strategy) ==
    LET cats == StatedMapping[strategy]
    IN IF cats = <<>> THEN <<>> ELSE Indexed(cats[1]) \o Indexed(cats[2])

\* the place of a registered name in the registry's insertion order
Position(name) == CHOOSE k \in 1..Len(registry.functions) : registry.functions[k].name = name

Suggested == call.op = "suggest_functions" /\ pc = "returned"

\* C16 as stated: suggest_functions returns the names registered under the strategy's
\* mapped categories, or all registered names if there are none, at most 10 of them,
\* listed in registry insertion order.
C16_InsertionOrder ==
    Suggested =>
        LET coll == Collected(call.analysis_strategy)
            full == IF coll = <<>> THEN FunctionNames(registry) ELSE coll
            r == ret.value
        IN /\ Len(r) <= 10
           /\ {r[i] : i \in 1..Len(r)} \subseteq {full[i] : i \in 1..Len(full)}
           /\ Len(r) = Min(10, Len(full))
           /\ \A i, j \in 1..Len(r) : i < j => Position(r[i]) < Position(r[j])

\* C16 amended: suggest_functions returns the names indexed under the strategy's mapped
\* categories, category by category in the order of the mapping and within a category
\* in the order they were registered; if that collection is empty it returns all
\* registered names in registry insertion order; the result is cut to its first 10.
C16_CategoryOrder ==
    Suggested =>
        LET coll == Collected(call.analysis_strategy)
            full == IF coll = <<>> THEN FunctionNames(registry) ELSE coll
        IN /\ ret.kind = "value"
           /\ Len(ret.value) <= 10
           /\ ret.value = SubSeq(full, 1, Min(10, Len(full)))

\* the session function was registered first, the order-block function is listed first
C16_Witness ==
    /\ Suggested
    /\ call.analysis_strategy = "performance_analysis"
    /\ Len(ret.value) = 2
    /\ Position(ret.value[1]) > Position(ret.value[2])

\* a finished call of execute_sql_function on a name the registry does not hold
UnknownFunctionCall ==
    /\ call.op = "execute_sql_function"
    /\ \A i \in 1..Len(registry.functions) : registry.functions[i].name # call.function_name

\* C17: execute_sql_function on a name that is not in the registry returns a structured
\* failure: success false, an error message, at most 5 alternative names, all of them
\* registered; the database is not called.
C17_UnknownFunction ==
    UnknownFunctionCall =>
        /\ ret.kind = "value"
        /\ ret.value.success = FALSE
        /\ ret.value.error = [prefix |-> "Function not found", detail |-> call.function_name]
        /\ Len(ret.value.alternatives) <= 5
        /\ \A i \in 1..Len(ret.value.alternatives) :
              \E j \in 1..Len(registry.functions) :
                 registry.functions[j].name = ret.value.alternatives[i]
        /\ trace.db = <<>>

\* twelve registered names, five of them offered
C17_Witness ==
    /\ UnknownFunctionCall
    /\ Len(registry.functions) > 5
    /\ Len(ret.value.alternatives) = 5
    /\ ret.value.success = FALSE
    /\ trace.db = <<>>

\* the outcomes of the data store that differ from o at most in the exception's text
SameButText(o) ==
    {o2 \in DbOutcomes : o2.kind = o.kind /\ o2.n = o.n /\ o2.ms = o.ms /\ o2.exc.type = o.exc.type}

\* C18: two executions that differ only in the text of the exception the data store
\* raises give the same error string from execute_sql_function and the same
\* error_details in the final response.
C18_NoErrorLeak ==
    /\ (call.op = "execute_sql_function" /\ call.outcome.kind = "raise") =>
          \A o2 \in SameButText(call.outcome) :
             execute_sql_function(registry, call.function_name, call.parameters, o2).ret = ret
    /\ (call.op = "process_coordinator_request" /\ call.outcome.kind = "raise"
            /\ trace.db # <<>> /\ call.outcome.exc.type # "CancelledError") =>
          /\ ret.kind = "value"
          /\ \A o2 \in SameButText(call.outcome) :
                process_coordinator_request(BacktestingAgentNames, registry, call.input,
                                            call.suggestThrows, o2).ret = ret

\* the trigger groups as the specification lists them
StatedPerformance ==
    {<<"p", "e", "r", "f", "o", "r", "m", "a", "n", "c", "e">>,
     <<"s", "u", "c", "c", "e", "s", "s">>,
     <<"w", "i", "n", " ", "r", "a", "t", "e">>,
     <<"p", "r", "o", "f", "i", "t">>}

StatedCorrelation ==
    {<<"c", "o", "r", "r", "e", "l", "a", "t", "i", "o", "n">>,
     <<"r", "e", "l", "a", "t", "i", "o", "n", "s", "h", "i", "p">>,
     <<"c", "o", "m", "p", "a", "r", "e">>}

StatedScalping ==
    {<<"s", "c", "a", "l", "p">>,
     <<"m", "i", "n", "u", "t", "e">>,
     <<"q", "u", "i", "c", "k">>,
     <<"f", "a", "s", "t">>}

StatedSwing ==
    {<<"s", "w", "i", "n", "g">>,
     <<"d", "a", "i", "l", "y">>,
     <<"d", "a", "y">>,
     <<"w", "e", "e", "k">>}

StatedHighConfidence ==
    {<<"a", "c", "c", "u", "r", "a", "t", "e">>,
     <<"p", "r", "e", "c", "i", "s", "e">>,
     <<"c", "o", "n", "f", "i", "d", "e", "n", "t">>,
     <<"r", "e", "l", "i", "a", "b", "l", "e">>}

StatedBroadCoverage ==
    {<<"b", "r", "o", "a", "d">>,
     <<"c", "o", "m", "p", "r", "e", "h", "e", "n", "s", "i", "v", "e">>,
     <<"a", "l", "l">>,
     <<"e", "v", "e", "r", "y", "t", "h", "i", "n", "g">>}

PlannedText == LowerText(call.user_query.text)

Triggered(group) == \E w \in group : Contains(PlannedText, w)

\* C19: for a query text, formulate_analysis_plan picks each of strategy, context and
\* quality tier from the first of its own ordered trigger groups that has a word in the
\* text: performance words before correlation words before structure_detection,
\* scalping words before swing words before position_analysis, high-confidence words
\* before broad-coverage words before balanced; no other word of the text matters.
\* A trigger word is in the text when the lower-cased text contains it, as Python's
\* "in" reads it: "today" holds the swing word "day", "all EURUSD" the coverage word "all".
C19_FirstMatchWins ==
    (call.op = "formulate_analysis_plan" /\ call.user_query.isStr) =>
       /\ ret.kind = "value"
       /\ ret.value.analysis_strategy =
             (IF Triggered(StatedPerformance) THEN "performance_analysis"
              ELSE IF Triggered(StatedCorrelation) THEN "correlation_study"
              ELSE "structure_detection")
       /\ ret.value.trading_context =
             (IF Triggered(StatedScalping) THEN "scalping"
              ELSE IF Triggered(StatedSwing) THEN "swing_trading"
              ELSE "position_analysis")
       /\ ret.value.quality_requirements =
             (IF Triggered(StatedHighConfidence) THEN "high_confidence"
              ELSE IF Triggered(StatedBroadCoverage) THEN "broad_coverage"
              ELSE "balanced")

\* a query with a performance word, a correlation word and a scalping word was planned
C19_Witness ==
    /\ call.op = "formulate_analysis_plan"
    /\ call.user_query.isStr
    /\ Triggered(StatedPerformance)
    /\ Triggered(StatedCorrelation)
    /\ Triggered(StatedScalping)
    /\ ret.kind = "value"
    /\ ret.value.analysis_strategy = "performance_analysis"
    /\ ret.value.trading_context = "scalping"

\* C20: the plan formulate_analysis_plan returns for a query is the plan it returns for
\* the same query with any other classification argument: the classification never
\* influences the plan.
C20_ClassificationIgnored ==
    (call.op = "formulate_analysis_plan") =>
       \A c2 \in ClassificationInputs :
          formulate_analysis_plan(CoordinatorAgentNames, call.user_query, c2) = ret

\* a query classified knowledge-first was planned by its trigger words
C20_Witness ==
    /\ call.op = "formulate_analysis_plan"
    /\ call.classification.routing_decision = "rag_first"
    /\ call.user_query.isStr
    /\ ret.kind = "value"
    /\ ret.value # DefaultPlan

\* the values JSON has a token for
JsonNative(v) == v.type \in {"str", "int", "float", "bool", "NoneType"}

C23_StageOrder ==
    call.op = "process_coordinator_request" =>
       /\ Len(trace.db) <= 1
       /\ trace.db # <<>> =>
             /\ trace.locals.selected # None
             /\ trace.db[1].function_name = trace.locals.selected
       /\ trace.locals.gateway # None => trace.locals.selected # None
       /\ trace.validated => (trace.locals.gateway = "success" /\ Len(trace.db) = 1)
       /\ trace.locals.gateway \in {"failure", "raised"} => ~trace.validated
       /\ trace.locals.status # None => trace.validated

\* a request whose one database call timed out: no second call, no validation
C23_Witness ==
    /\ call.op = "process_coordinator_request"
    /\ call.outcome.kind = "raise"
    /\ call.outcome.exc.type = "TimeoutError"
    /\ Len(trace.db) = 1
    /\ trace.locals.gateway = "failure"
    /\ ~trace.validated

\* the validation the handler works with when the gateway answered with success
ValidationOfCall ==
    validate_results([isList |-> TRUE, len |-> call.outcome.n],
                     call.input.request.quality_requirements)

\* the first recommendation by confidence level, then the hint to extend the range
StatedRecommendations ==
    LET v == ValidationOfCall
    IN <<CASE v.confidence_level > Pct(90) -> "high_confidence"
           [] v.confidence_level > Pct(75) /\ v.confidence_level <= Pct(90) -> "good_confidence"
           [] OTHER -> "low_confidence">>
       \o (IF v.sample_size < 20 THEN <<"extend_time_range">> ELSE <<>>)

\* C24: the response's recommendations come from the validation alone: the high-
\* confidence message above 90, the good-confidence message above 75 up to 90, else
\* the low-confidence message, followed by the extend-time-range message exactly when
\* sample_size < 20; the response's warnings are the validator's warnings, unchanged
\* and in the same order.
C24_RecommendationsAndWarnings ==
    (ProcessedRequest /\ trace.locals.gateway = "success") =>
        /\ ret.kind = "value"
        /\ ret.value.recommendations = StatedRecommendations
        /\ ret.value.warnings = ValidationOfCall.warnings

\* C27: when the execution succeeds the response's status is success exactly for the
\* high_confidence tier with at least 20 rows; under balanced and broad_coverage it is
\* partial with rows and failed without.
C27_SuccessOnlyHighConfidence ==
    (ProcessedRequest /\ trace.locals.gateway = "success") =>
        /\ ret.kind = "value"
        /\ (ret.value.execution_status = "success"
              <=> (call.input.request.quality_requirements = "high_confidence"
                   /\ call.outcome.n >= 20))
        /\ call.input.request.quality_requirements \in {"balanced", "broad_coverage"}
              => ret.value.execution_status = (IF call.outcome.n > 0 THEN "partial" ELSE "failed")

\* C29: every call of process_coordinator_request returns a response whose
\* error_details is set exactly when its execution_status is failed, the failed
\* response of an execution with zero rows included.
C29_ErrorDetailsIffFailed ==
    (call.op = "process_coordinator_request" /\ call.outcome.exc.type # "CancelledError") =>
        /\ ret.kind = "value"
        /\ (ret.value.error_details # None <=> ret.value.execution_status = "failed")

Healthy ==
    /\ manager.status.ssd_mounted
    /\ manager.status.ollama_available
    /\ manager.status.supabase_available

\* what the latest check found failing
FoundFailing(key) ==
    CASE key = "ssd" -> ~manager.status.ssd_mounted
      [] key = "ollama" -> ~manager.status.ollama_available
      [] key = "supabase" -> ~manager.status.supabase_available
      [] OTHER -> ~manager.status.ssd_mounted

\* C30: when a full_health_check has returned, error_messages holds an entry for a
\* component (ssd, ollama, supabase, services) only if this check found it failing,
\* and after a healthy check it is empty, whatever earlier checks found.
C30_NoStaleMessages ==
    manager.check = "returned" =>
       /\ \A key \in MessageKeys :
             manager.status.error_messages[key] # None => FoundFailing(key)
       /\ Healthy => manager.status.error_messages = NoMessages

PipelineOperations ==
    {"get_function", "get_functions_by_category", "suggest_functions",
     "select_optimal_function", "execute_sql_function", "process_coordinator_request"}

C28_RecommendedIsRegistered ==
    /\ call.op = "select_optimal_function" =>
          /\ (registry.functions # <<>> /\ ~call.suggestThrows)
                => HasFunction(registry, ret.value.recommended_function)
          /\ ~HasFunction(registry, ret.value.recommended_function)
                => /\ ret.value.recommended_function = DefaultFunction
                   /\ (registry.functions = <<>> \/ call.suggestThrows)
    /\ (call.op = "process_coordinator_request" /\ call.input.parse = "ok") =>
          /\ (registry.functions # <<>> /\ ~call.suggestThrows)
                => /\ HasFunction(registry, trace.locals.selected)
                   /\ trace.locals.gateway = "failure"
                         => trace.locals.gateway_error.prefix # "Function not found"
                   /\ Len(trace.db) = 1
          /\ ~HasFunction(registry, trace.locals.selected)
                => /\ trace.locals.selected = DefaultFunction
                   /\ (registry.functions = <<>> \/ call.suggestThrows)

\* a registry loaded from a file that does not declare any preferred function: the
\* first suggestion is recommended, and it is registered
C28_Witness ==
    /\ call.op = "select_optimal_function"
    /\ ~call.suggestThrows
    /\ registry.functions # <<>>
    /\ ~HasFunction(registry, DefaultFunction)
    /\ ret.value.recommended_function \notin
          {"update_order_block_performance", "analyze_session_performance", "detect_fair_value_gaps"}
    /\ HasFunction(registry, ret.value.recommended_function)

====
